---- MODULE Spec2Model ----
(***************************************************************************)
(* Model of AIAnalysisService                                              *)
(* (backend/src/cashflow-analysis/services/aiAnalysisService.js).          *)
(*                                                                         *)
(* Spec   : one service instance; analyzeCashflow calls run one at a time, *)
(*          each as the steps  key check + prompt building + request,      *)
(*          then the HTTP outcome + response parsing.                      *)
(* SpecFn : the pure helpers (calculateBusinessMetrics,                    *)
(*          generateVisualizationData) applied to bounded entry sequences. *)
(*                                                                         *)
(* JavaScript values are modelled as follows.                              *)
(*   - amounts and summary figures are integers;                           *)
(*   - a value taken from the model's JSON is a record [t, x10, s]: its    *)
(*     type tag, ten times its numeric value, its string value;            *)
(*   - a number that may be NaN is a record [nan, x10];                    *)
(*   - a quotient is a record [nan, num, den] (0/0 is NaN);                *)
(*   - a missing or empty string property is "" (both are falsy);          *)
(*   - chart styling constants (colours, fill) are left out.               *)
(***************************************************************************)
EXTENDS Integers, Sequences, FiniteSets, TLC

VARIABLES
    geminiApiKey,    \* this.geminiApiKey: TRUE when the credential is set
    pc,              \* position of the current analyzeCashflow call
    cashflowData,    \* argument of the current call
    prompt,          \* prompt built by buildAnalysisPrompt
    requests,        \* axios.post calls issued by the current call
    log,             \* steps taken by the current call, in order
    httpOutcome,     \* how the axios.post of the current call settled
    result,          \* what analyzeCashflow gave its caller
    fnPc,            \* SpecFn: which helper was applied last
    fnEntries,       \* SpecFn: the entries given to the helper
    fnSuggestions,   \* SpecFn: the suggestions given to the helper
    fnMetrics,       \* SpecFn: calculateBusinessMetrics' return value
    fnCharts         \* SpecFn: generateVisualizationData's return value

vars == <<geminiApiKey, pc, cashflowData, prompt, requests, log, httpOutcome, result,
          fnPc, fnEntries, fnSuggestions, fnMetrics, fnCharts>>

callVars == <<geminiApiKey, pc, cashflowData, prompt, requests, log, httpOutcome, result>>
fnVars == <<fnPc, fnEntries, fnSuggestions, fnMetrics, fnCharts>>

----------------------------------------------------------------------------
(* Bounds of the model *)

\* longest entry sequence given to the pure helpers
MaxEntries == 2
\* longest response text, in tokens
MaxTextLen == 4

----------------------------------------------------------------------------
(* JavaScript arithmetic *)

Abs(n) == IF n < 0 THEN -n ELSE n

Min2(a, b) == IF a < b THEN a ELSE b

NaN == [nan |-> TRUE, x10 |-> 0]

Num(x10) == [nan |-> FALSE, x10 |-> x10]

\* a / b on JavaScript numbers with b >= 0: 0/0 is NaN
JsDivide(a, b) ==
    IF b = 0 /\ a = 0 THEN [nan |-> TRUE, num |-> 0, den |-> 1]
    ELSE [nan |-> FALSE, num |-> a, den |-> b]

Zero == [nan |-> FALSE, num |-> 0, den |-> 1]

\* a quotient is the number 0
IsZero(q) == ~q.nan /\ q.num = 0 /\ q.den # 0

----------------------------------------------------------------------------
(* Ledger entries *)

MonthAbbr ==
    <<"Jan", "Feb", "Mar", "Apr", "May", "Jun",
      "Jul", "Aug", "Sep", "Oct", "Nov", "Dec">>

Dates ==
    { [year |-> 2023, month |-> 11, day |-> 20],
      [year |-> 2024, month |-> 1, day |-> 5],
      [year |-> 2024, month |-> 2, day |-> 10] }

Categories == {"revenue", "expense", "transfer"}

Subcategories == {"", "Rent"}

Amounts == {-400, 0, 1000}

\* a subcategory is given to expense entries only, and transfers carry one amount
Entry ==
    { e \in [date : Dates, category : Categories,
             subcategory : Subcategories, amount : Amounts] :
          /\ e.category # "expense" => e.subcategory = ""
          /\ e.category = "transfer" => e.amount = 1000 }

RECURSIVE SeqsUpTo(_, _)
SeqsUpTo(S, n) ==
    IF n = 0 THEN {<<>>}
    ELSE LET shorter == SeqsUpTo(S, n - 1)
         IN  shorter \cup {Append(s, x) : s \in {t \in shorter : Len(t) = n - 1}, x \in S}

EntrySeqs == SeqsUpTo(Entry, MaxEntries)

RECURSIVE Filter(_, _)
\* entries.filter(e => e.category === cat)
Filter(entries, cat) ==
    IF entries = <<>> THEN <<>>
    ELSE IF Head(entries).category = cat
         THEN <<Head(entries)>> \o Filter(Tail(entries), cat)
         ELSE Filter(Tail(entries), cat)

RECURSIVE SumAmount(_)
\* reduce((sum, e) => sum + e.amount, 0)
SumAmount(entries) ==
    IF entries = <<>> THEN 0
    ELSE Head(entries).amount + SumAmount(Tail(entries))

RECURSIVE SumAbsAmount(_)
\* reduce((sum, e) => sum + Math.abs(e.amount), 0)
SumAbsAmount(entries) ==
    IF entries = <<>> THEN 0
    ELSE Abs(Head(entries).amount) + SumAbsAmount(Tail(entries))

----------------------------------------------------------------------------
(* Metrics Summarizer *)

calculateBusinessMetrics(entries) ==
    LET revenue == Filter(entries, "revenue")
        expenses == Filter(entries, "expense")
        totalRevenue == SumAmount(revenue)
        totalExpenses == SumAbsAmount(expenses)
    IN  [ grossProfitMargin |->
              IF totalRevenue > 0
              THEN JsDivide((totalRevenue - totalExpenses) * 100, totalRevenue)
              ELSE Zero,
          expenseRatio |->
              IF totalRevenue > 0
              THEN JsDivide(totalExpenses * 100, totalRevenue)
              ELSE Zero,
          averageTransactionSize |->
              IF Len(entries) > 0
              THEN JsDivide(totalRevenue, Len(revenue))
              ELSE Zero,
          transactionFrequency |-> Len(entries) ]

----------------------------------------------------------------------------
(* Visualization Builder *)

\* moment(entry.date).format('MMM YYYY'): the label "Nov 2023" as <<"Nov", 2023>>
FormatMonth(date) == <<MonthAbbr[date.month], date.year>>

\* moment(label, 'MMM YYYY').valueOf(): the instant of the first day of the
\* month, counted in months instead of milliseconds
MonthValue(label) ==
    LET m == CHOOSE i \in 1..12 : MonthAbbr[i] = label[1]
    IN  label[2] * 12 + (m - 1)

\* rank of a month abbreviation in the order of its text
AbbrTextRank(abbr) == Cardinality({i \in 1..12 :
    LET a == MonthAbbr[i]
        order == <<"Apr", "Aug", "Dec", "Feb", "Jan", "Jul",
                   "Jun", "Mar", "May", "Nov", "Oct", "Sep">>
        pos(x) == CHOOSE k \in 1..12 : order[k] = x
    IN  pos(a) < pos(abbr)})

\* a.localeCompare(b) on labels: order of the label text
CompareLabelText(a, b) ==
    IF a[1] # b[1] THEN AbbrTextRank(a[1]) - AbbrTextRank(b[1])
    ELSE a[2] - b[2]

\* the comparator (a, b) => moment(a, 'MMM YYYY').valueOf() - moment(b, 'MMM YYYY').valueOf()
CompareMonths(a, b) == MonthValue(a) - MonthValue(b)

RECURSIVE InsertLabel(_, _)
\* place x behind every element that does not sort after it
InsertLabel(sorted, x) ==
    IF sorted = <<>> THEN <<x>>
    ELSE LET last == sorted[Len(sorted)]
         IN  IF CompareMonths(last, x) <= 0
             THEN Append(sorted, x)
             ELSE Append(InsertLabel(SubSeq(sorted, 1, Len(sorted) - 1), x), last)

RECURSIVE SortMonths(_)
\* Array.prototype.sort with CompareMonths (a stable sort)
SortMonths(keys) ==
    IF keys = <<>> THEN <<>>
    ELSE InsertLabel(SortMonths(SubSeq(keys, 1, Len(keys) - 1)), keys[Len(keys)])

InSeq(x, s) == \E i \in 1..Len(s) : s[i] = x

RECURSIVE MonthKeys(_)
\* Object.keys(monthlyData): the labels in the order the loop created them
MonthKeys(entries) ==
    IF entries = <<>> THEN <<>>
    ELSE LET before == MonthKeys(SubSeq(entries, 1, Len(entries) - 1))
             month == FormatMonth(entries[Len(entries)].date)
         IN  IF InSeq(month, before) THEN before ELSE Append(before, month)

RECURSIVE MonthRevenue(_, _)
\* monthlyData[month].revenue after the loop
MonthRevenue(entries, month) ==
    IF entries = <<>> THEN 0
    ELSE LET e == Head(entries)
         IN  (IF FormatMonth(e.date) = month /\ e.category = "revenue"
              THEN e.amount ELSE 0) + MonthRevenue(Tail(entries), month)

RECURSIVE MonthExpenses(_, _)
\* monthlyData[month].expenses after the loop
MonthExpenses(entries, month) ==
    IF entries = <<>> THEN 0
    ELSE LET e == Head(entries)
         IN  (IF FormatMonth(e.date) = month /\ e.category = "expense"
              THEN Abs(e.amount) ELSE 0) + MonthExpenses(Tail(entries), month)

RECURSIVE MonthNet(_, _)
\* monthlyData[month] after the loop of generateCashflowTrendData
MonthNet(entries, month) ==
    IF entries = <<>> THEN 0
    ELSE LET e == Head(entries)
             delta == IF FormatMonth(e.date) # month THEN 0
                      ELSE IF e.category = "revenue" THEN e.amount
                      ELSE IF e.category = "expense" THEN -Abs(e.amount)
                      ELSE 0
         IN  delta + MonthNet(Tail(entries), month)

generateRevenueExpenseData(entries) ==
    LET sortedMonths == SortMonths(MonthKeys(entries))
    IN  [ labels |-> sortedMonths,
          datasets |-> <<
              [label |-> "Revenue",
               data |-> [i \in 1..Len(sortedMonths) |-> MonthRevenue(entries, sortedMonths[i])]],
              [label |-> "Expenses",
               data |-> [i \in 1..Len(sortedMonths) |-> MonthExpenses(entries, sortedMonths[i])]] >> ]

generateCashflowTrendData(entries) ==
    LET sortedMonths == SortMonths(MonthKeys(entries))
    IN  [ labels |-> sortedMonths,
          datasets |-> <<
              [label |-> "Net Cashflow",
               data |-> [i \in 1..Len(sortedMonths) |-> MonthNet(entries, sortedMonths[i])]] >> ]

\* expense.subcategory || 'Other Expenses'
ExpenseCategory(e) == IF e.subcategory = "" THEN "Other Expenses" ELSE e.subcategory

RECURSIVE BreakdownKeys(_)
\* Object.keys(breakdown): the categories in the order the loop created them
BreakdownKeys(expenses) ==
    IF expenses = <<>> THEN <<>>
    ELSE LET before == BreakdownKeys(SubSeq(expenses, 1, Len(expenses) - 1))
             category == ExpenseCategory(expenses[Len(expenses)])
         IN  IF InSeq(category, before) THEN before ELSE Append(before, category)

RECURSIVE BreakdownValue(_, _)
\* breakdown[category] after the loop
BreakdownValue(expenses, category) ==
    IF expenses = <<>> THEN 0
    ELSE (IF ExpenseCategory(Head(expenses)) = category
          THEN Abs(Head(expenses).amount) ELSE 0)
         + BreakdownValue(Tail(expenses), category)

generateExpenseBreakdownData(entries) ==
    LET expenses == Filter(entries, "expense")
        keys == BreakdownKeys(expenses)
    IN  [ labels |-> keys,
          datasets |-> << [data |-> [i \in 1..Len(keys) |-> BreakdownValue(expenses, keys[i])]] >> ]

\* a builder that leaves out the line chart unless the hints are empty
generateVisualizationDataHinted(entries, suggestions) ==
    LET expenseData == generateExpenseBreakdownData(entries)
        pie == IF Len(expenseData.datasets) > 0 /\ Len(expenseData.datasets[1].data) > 0
               THEN << [chartType |-> "pie", title |-> "Expense Breakdown",
                        category |-> "expenses", data |-> expenseData] >>
               ELSE <<>>
        line == IF suggestions.present /\ suggestions.items # <<>> THEN <<>>
                ELSE << [chartType |-> "line", title |-> "Net Cashflow Trend",
                         category |-> "trends",
                         data |-> generateCashflowTrendData(entries)] >>
    IN  pie \o
        << [chartType |-> "bar", title |-> "Revenue vs Expenses by Month",
            category |-> "comparisons", data |-> generateRevenueExpenseData(entries)] >>
        \o line

\* the `suggestions` parameter is never read
generateVisualizationData(entries, suggestions) ==
    LET expenseData == generateExpenseBreakdownData(entries)
        pie == IF Len(expenseData.datasets) > 0 /\ Len(expenseData.datasets[1].data) > 0
               THEN << [chartType |-> "pie", title |-> "Expense Breakdown",
                        category |-> "expenses", data |-> expenseData] >>
               ELSE <<>>
    IN  pie \o
        << [chartType |-> "bar", title |-> "Revenue vs Expenses by Month",
            category |-> "comparisons", data |-> generateRevenueExpenseData(entries)],
           [chartType |-> "line", title |-> "Net Cashflow Trend",
            category |-> "trends", data |-> generateCashflowTrendData(entries)] >>

----------------------------------------------------------------------------
(* Values of the model's JSON *)

JsUndefined == [t |-> "undefined", x10 |-> 0, s |-> ""]

JsNumber(x10) == [t |-> "number", x10 |-> x10, s |-> ""]

JsString(s) == [t |-> "string", x10 |-> 0, s |-> s]

\* !v is false
Truthy(v) ==
    CASE v.t = "number" -> v.x10 # 0
      [] v.t = "string" -> v.s # ""
      [] OTHER -> FALSE

\* ToNumber: the strings of this model are "" (0) and non-numeric text (NaN)
ToNumber(v) ==
    CASE v.t = "number" -> Num(v.x10)
      [] v.t = "string" -> IF v.s = "" THEN Num(0) ELSE NaN
      [] OTHER -> NaN

\* Math.min(100, v)
MathMin100(v) ==
    LET n == ToNumber(v)
    IN  IF n.nan THEN NaN ELSE IF n.x10 > 1000 THEN Num(1000) ELSE n

\* Math.max(0, n)
MathMax0(n) == IF n.nan THEN NaN ELSE IF n.x10 < 0 THEN Num(0) ELSE n

\* Math.max(0, Math.min(100, v))
ClampScore(v) == MathMax0(MathMin100(v))

\* an array property of the model's JSON: absent, or the items it lists
Absent == [present |-> FALSE, items |-> <<>>]

Listed(items) == [present |-> TRUE, items |-> items]

\* parsedResponse.x || []
OrEmpty(field) == IF field.present THEN field.items ELSE <<>>

----------------------------------------------------------------------------
(* Fallback Generator *)

Pad3(n) == IF n < 10 THEN "00" \o ToString(n)
           ELSE IF n < 100 THEN "0" \o ToString(n) ELSE ToString(n)

\* Number.prototype.toLocaleString() for |n| < 1,000,000: "1,000"
ToLocaleString(n) ==
    LET a == Abs(n)
        digits == IF a >= 1000 THEN ToString(a \div 1000) \o "," \o Pad3(a % 1000)
                  ELSE ToString(a)
    IN  IF n < 0 THEN "-" \o digits ELSE digits

\* the score with >= in place of >
FallbackScoreNonNegative(summary) ==
    IF summary.netCashflow >= 0 THEN Num(700) ELSE Num(400)

\* summary.netCashflow > 0 ? 70 : 40
FallbackScore(summary) ==
    IF summary.netCashflow > 0 THEN Num(700) ELSE Num(400)

generateFallbackAnalysis(data) ==
    LET summary == data.summary
    IN  [ executiveSummary |->
              "Basic financial analysis: Total revenue of $"
              \o ToLocaleString(summary.totalRevenue) \o ", expenses of $"
              \o ToLocaleString(summary.totalExpenses)
              \o ", resulting in net cashflow of $"
              \o ToLocaleString(summary.netCashflow) \o ".",
          overallHealthScore |-> FallbackScore(summary),
          insights |-> <<
              [ type |-> "profitability",
                title |-> "Basic Profitability Analysis",
                description |-> IF summary.netCashflow > 0
                                THEN "Business shows positive cashflow"
                                ELSE "Business shows negative cashflow",
                severity |-> IF summary.netCashflow > 0 THEN "low" ELSE "high",
                actionable |-> summary.netCashflow <= 0,
                impact |-> IF summary.netCashflow > 0 THEN "positive" ELSE "negative",
                confidence |-> 60 ] >>,
          keyMetrics |-> <<
              [ name |-> "Net Cashflow",
                value |-> summary.netCashflow,
                unit |-> "currency",
                trend |-> "stable",
                description |-> "Total revenue minus total expenses" ] >>,
          recommendations |-> <<>>,
          riskFactors |-> <<>>,
          visualizations |-> generateVisualizationData(data.entries, Absent) ]

----------------------------------------------------------------------------
(* Response Normalizer *)

(* A response text is a sequence of tokens: "{" and "}" are braces, "w" is
   text without braces, "F" is the member list of the model's JSON object,
   whose members are the text's `payload`. *)

Tokens == {"{", "}", "w", "F"}

IndexesOf(tokens, tok) == {i \in 1..Len(tokens) : tokens[i] = tok}

SetMin(S) == CHOOSE x \in S : \A y \in S : x <= y

SetMax(S) == CHOOSE x \in S : \A y \in S : x >= y

\* responseText.match(/\{[\s\S]*\}/): from the first "{" to the last "}"
JsonMatch(tokens) ==
    LET opens == IndexesOf(tokens, "{")
        closes == IndexesOf(tokens, "}")
    IN  IF opens # {} /\ closes # {} /\ SetMin(opens) < SetMax(closes)
        THEN [found |-> TRUE, span |-> SubSeq(tokens, SetMin(opens), SetMax(closes))]
        ELSE [found |-> FALSE, span |-> <<>>]

\* the object without members
EmptyObject ==
    [ executiveSummary |-> "", overallHealthScore |-> JsUndefined,
      insights |-> Absent, keyMetrics |-> Absent, recommendations |-> Absent,
      riskFactors |-> Absent, visualizationSuggestions |-> Absent ]

\* JSON.parse(span): one object, empty or with the payload's members
JsonParse(span, payload) ==
    IF span = <<"{", "}">> THEN [ok |-> TRUE, value |-> EmptyObject]
    ELSE IF span = <<"{", "F", "}">> THEN [ok |-> TRUE, value |-> payload]
    ELSE [ok |-> FALSE, value |-> EmptyObject]

\* a validation that asks for the score to be present, not to be truthy
MissingRequiredFieldsStrict(parsed) ==
    parsed.executiveSummary = "" \/ parsed.overallHealthScore.t = "undefined"

\* the validation  !executiveSummary || !overallHealthScore
MissingRequiredFields(parsed) ==
    parsed.executiveSummary = "" \/ ~Truthy(parsed.overallHealthScore)

\* the try block of parseAIResponse throws; responseText is [defined, tokens,
\* payload], and an undefined responseText has no match method
ParseThrows(responseText) ==
    LET jsonMatch == JsonMatch(responseText.tokens)
        parsed == JsonParse(jsonMatch.span, responseText.payload)
    IN  \/ ~responseText.defined
        \/ ~jsonMatch.found
        \/ ~parsed.ok
        \/ MissingRequiredFields(parsed.value)

parseAIResponse(responseText, data) ==
    LET jsonMatch == JsonMatch(responseText.tokens)
        parsed == JsonParse(jsonMatch.span, responseText.payload)
    IN  IF ParseThrows(responseText) THEN generateFallbackAnalysis(data)
        ELSE [ executiveSummary |-> parsed.value.executiveSummary,
               overallHealthScore |-> ClampScore(parsed.value.overallHealthScore),
               insights |-> OrEmpty(parsed.value.insights),
               keyMetrics |-> OrEmpty(parsed.value.keyMetrics),
               recommendations |-> OrEmpty(parsed.value.recommendations),
               riskFactors |-> OrEmpty(parsed.value.riskFactors),
               visualizations |->
                   generateVisualizationData(data.entries,
                                             parsed.value.visualizationSuggestions) ]

----------------------------------------------------------------------------
(* Remote Analysis Client *)

\* what JSON.stringify(response.data) parses back to: the body's own members,
\* none of which is a report field
BodyMembers == EmptyObject

Undefined == [defined |-> FALSE, tokens |-> <<>>, payload |-> EmptyObject]

Text(tokens, payload) == [defined |-> TRUE, tokens |-> tokens, payload |-> payload]

\* JSON.stringify(response.data): undefined for an undefined body
JsonStringify(data) ==
    IF data.defined THEN Text(<<"{", "F", "}">>, BodyMembers) ELSE Undefined

\* the return values of callGeminiAPI
ApiSuccess(response) ==
    [success |-> TRUE, error |-> "", details |-> "", response |-> response]

ApiFailure(error, details) ==
    [success |-> FALSE, error |-> error, details |-> details, response |-> Undefined]

\* callGeminiAPI without its branch for status 429
callGeminiAPINo429(outcome) ==
    IF outcome.kind = "ok"
    THEN IF outcome.data.defined /\ outcome.data.tokens # <<>>
         THEN ApiSuccess(Text(outcome.data.tokens, outcome.data.payload))
         ELSE ApiSuccess(JsonStringify(outcome.data))
    ELSE IF outcome.kind = "status" /\ outcome.status = 401
         THEN ApiFailure("Invalid Gemini API key", "")
    ELSE IF outcome.kind = "status" /\ outcome.status = 400
         THEN ApiFailure("Invalid request: " \o
                         (IF outcome.remoteMessage # "" THEN outcome.remoteMessage
                          ELSE outcome.statusText), "")
    ELSE ApiFailure("Failed to connect to Gemini API", outcome.message)

\* callGeminiAPI reporting a body without the candidate text as a failure
callGeminiAPIStrict(outcome) ==
    IF outcome.kind = "ok"
    THEN IF outcome.data.defined /\ outcome.data.tokens # <<>>
         THEN ApiSuccess(Text(outcome.data.tokens, outcome.data.payload))
         ELSE ApiFailure("Invalid response from Gemini API", "")
    ELSE IF outcome.kind = "status" /\ outcome.status = 401
         THEN ApiFailure("Invalid Gemini API key", "")
    ELSE IF outcome.kind = "status" /\ outcome.status = 429
         THEN ApiFailure("Rate limit exceeded, please try again later", "")
    ELSE IF outcome.kind = "status" /\ outcome.status = 400
         THEN ApiFailure("Invalid request: " \o
                         (IF outcome.remoteMessage # "" THEN outcome.remoteMessage
                          ELSE outcome.statusText), "")
    ELSE ApiFailure("Failed to connect to Gemini API", outcome.message)

(* outcome of axios.post: [kind, status, remoteMessage, statusText, message, data]
   kind "ok"       the promise resolves; data is the body: defined or not,
                   with the first candidate's text (<<>> when missing or empty)
   kind "status"   it rejects with error.response set
   kind "network"  it rejects without error.response (timeout, no connection) *)
callGeminiAPI(outcome) ==
    IF outcome.kind = "ok"
    THEN IF outcome.data.defined /\ outcome.data.tokens # <<>>
         THEN ApiSuccess(Text(outcome.data.tokens, outcome.data.payload))
         ELSE ApiSuccess(JsonStringify(outcome.data))
    ELSE IF outcome.kind = "status" /\ outcome.status = 401
         THEN ApiFailure("Invalid Gemini API key", "")
    ELSE IF outcome.kind = "status" /\ outcome.status = 429
         THEN ApiFailure("Rate limit exceeded, please try again later", "")
    ELSE IF outcome.kind = "status" /\ outcome.status = 400
         THEN ApiFailure("Invalid request: " \o
                         (IF outcome.remoteMessage # "" THEN outcome.remoteMessage
                          ELSE outcome.statusText), "")
    ELSE ApiFailure("Failed to connect to Gemini API", outcome.message)

----------------------------------------------------------------------------
(* Prompt Builder *)

Thrown(message) == [threw |-> TRUE, message |-> message, listed |-> 0, margin |-> Zero]

\* the prompt: how many entries it lists and the margin it prints
buildAnalysisPrompt(data) ==
    CASE data.shape = "null" ->
             Thrown("Cannot destructure property 'entries' of 'cashflowData' as it is null.")
      [] data.shape = "noEntries" ->
             Thrown("Cannot read properties of undefined (reading 'filter')")
      [] data.shape = "noPeriod" ->
             Thrown("Cannot read properties of undefined (reading 'startDate')")
      [] data.shape = "noSummary" ->
             Thrown("Cannot read properties of undefined (reading 'totalRevenue')")
      [] data.shape = "noCategory" ->
             Thrown("Cannot read properties of undefined (reading 'toUpperCase')")
      [] OTHER ->
             [ threw |-> FALSE, message |-> "",
               listed |-> Min2(Len(data.entries), 20),
               margin |-> calculateBusinessMetrics(data.entries).grossProfitMargin ]

NoPrompt == [threw |-> FALSE, message |-> "", listed |-> 0, margin |-> Zero]

----------------------------------------------------------------------------
(* analyzeCashflow *)

NoReport ==
    [ executiveSummary |-> "", overallHealthScore |-> NaN, insights |-> <<>>,
      keyMetrics |-> <<>>, recommendations |-> <<>>, riskFactors |-> <<>>,
      visualizations |-> <<>> ]

\* no call has returned
NoResult ==
    [ completion |-> "none", success |-> FALSE, error |-> "", details |-> "",
      hasAnalysis |-> FALSE, analysis |-> NoReport, rawResponse |-> Undefined ]

\* return { success: true, analysis, rawResponse }
ReturnSuccess(analysis, rawResponse) ==
    [ completion |-> "return", success |-> TRUE, error |-> "", details |-> "",
      hasAnalysis |-> TRUE, analysis |-> analysis, rawResponse |-> rawResponse ]

\* return analysisResult
ReturnApiResult(analysisResult) ==
    [ completion |-> "return", success |-> analysisResult.success,
      error |-> analysisResult.error, details |-> analysisResult.details,
      hasAnalysis |-> FALSE, analysis |-> NoReport, rawResponse |-> Undefined ]

\* an exception that leaves analyzeCashflow
Rethrow(message) ==
    [ completion |-> "throw", success |-> FALSE, error |-> "", details |-> message,
      hasAnalysis |-> FALSE, analysis |-> NoReport, rawResponse |-> Undefined ]

\* the catch block of analyzeCashflow
CatchAnalysisError(message) ==
    [ completion |-> "return", success |-> FALSE,
      error |-> "Failed to analyze cashflow data", details |-> message,
      hasAnalysis |-> FALSE, analysis |-> NoReport, rawResponse |-> Undefined ]

\* the try block without its key check
BeforeRequestNoKeyCheck(key, data) == buildAnalysisPrompt(data)

\* the statements of the try block before the await: the key check, then the prompt
BeforeRequest(key, data) ==
    IF ~key THEN Thrown("Gemini API key not configured")
    ELSE buildAnalysisPrompt(data)

\* the statements after the await
AfterRequest(analysisResult, data) ==
    IF ~analysisResult.success THEN ReturnApiResult(analysisResult)
    ELSE ReturnSuccess(parseAIResponse(analysisResult.response, data),
                       analysisResult.response)

----------------------------------------------------------------------------
(* Inputs *)

RevenueEntry ==
    [ date |-> [year |-> 2024, month |-> 1, day |-> 5], category |-> "revenue",
      subcategory |-> "", amount |-> 1000 ]

RentEntry ==
    [ date |-> [year |-> 2024, month |-> 2, day |-> 10], category |-> "expense",
      subcategory |-> "Rent", amount |-> -400 ]

\* the ledgers given to analyzeCashflow
CallEntrySeqs == {<<>>, <<RevenueEntry>>, <<RentEntry>>, <<RevenueEntry, RentEntry>>}

Summaries ==
    { [totalRevenue |-> 1000, totalExpenses |-> 400, netCashflow |-> 600],
      [totalRevenue |-> 400, totalExpenses |-> 400, netCashflow |-> 0],
      [totalRevenue |-> 390, totalExpenses |-> 400, netCashflow |-> -10] }

NoSummary == [totalRevenue |-> 0, totalExpenses |-> 0, netCashflow |-> 0]

\* shape "ok": a well-formed dataset; the other shapes lack what their name says
Datasets ==
    { [shape |-> "ok", entries |-> e, summary |-> s] : e \in CallEntrySeqs, s \in Summaries }
    \cup
    { [shape |-> sh, entries |-> <<>>, summary |-> NoSummary] :
          sh \in {"null", "noEntries", "noPeriod", "noSummary", "noCategory"} }

NoData == [shape |-> "null", entries |-> <<>>, summary |-> NoSummary]

ModelItems(kind) == Listed(<<[source |-> "model", kind |-> kind]>>)

Scores ==
    { JsUndefined, JsNumber(0), JsNumber(-50), JsNumber(850), JsNumber(855),
      JsNumber(1500), JsString("high") }

\* the objects the model's JSON can denote
Payloads ==
    { [ executiveSummary |-> es, overallHealthScore |-> sc,
        insights |-> IF arrays THEN ModelItems("insight") ELSE Absent,
        keyMetrics |-> IF arrays THEN ModelItems("metric") ELSE Absent,
        recommendations |-> IF arrays THEN ModelItems("recommendation") ELSE Absent,
        riskFactors |-> IF arrays THEN ModelItems("risk") ELSE Absent,
        visualizationSuggestions |-> IF arrays THEN ModelItems("chart") ELSE Absent ] :
      es \in {"", "ok"}, sc \in Scores, arrays \in BOOLEAN }

TokenSeqs == SeqsUpTo(Tokens, MaxTextLen)

\* the bodies of a 2xx response
Bodies ==
    { [defined |-> TRUE, tokens |-> t, payload |-> p] :
          t \in {x \in TokenSeqs : IndexesOf(x, "F") # {}}, p \in Payloads }
    \cup
    { [defined |-> TRUE, tokens |-> t, payload |-> EmptyObject] :
          t \in {x \in TokenSeqs : IndexesOf(x, "F") = {}} }
    \cup {Undefined}

StatusText(status) ==
    CASE status = 400 -> "Bad Request"
      [] status = 401 -> "Unauthorized"
      [] status = 403 -> "Forbidden"
      [] status = 429 -> "Too Many Requests"
      [] OTHER -> "Internal Server Error"

HttpOutcomes ==
    { [kind |-> "ok", status |-> 200, remoteMessage |-> "", statusText |-> "OK",
       message |-> "", data |-> b] : b \in Bodies }
    \cup
    { [kind |-> "status", status |-> st, remoteMessage |-> rm,
       statusText |-> StatusText(st),
       message |-> "Request failed with status code " \o ToString(st),
       data |-> Undefined] :
          st \in {400, 401, 403, 429, 500}, rm \in {"", "API key not valid"} }
    \cup
    { [kind |-> "network", status |-> 0, remoteMessage |-> "", statusText |-> "",
       message |-> m, data |-> Undefined] :
          m \in {"timeout of 60000ms exceeded", "connect ECONNREFUSED"} }

NoOutcome ==
    [kind |-> "none", status |-> 0, remoteMessage |-> "", statusText |-> "",
     message |-> "", data |-> Undefined]

Suggestions == {Absent, Listed(<<>>), ModelItems("chart")}

NoMetrics ==
    [ grossProfitMargin |-> Zero, expenseRatio |-> Zero,
      averageTransactionSize |-> Zero, transactionFrequency |-> 0 ]

----------------------------------------------------------------------------
(* The service *)

\* the constructor reads the credential from the environment
Init ==
    /\ geminiApiKey \in BOOLEAN
    /\ pc = "idle"
    /\ cashflowData = NoData
    /\ prompt = NoPrompt
    /\ requests = 0
    /\ log = <<>>
    /\ httpOutcome = NoOutcome
    /\ result = NoResult
    /\ fnPc = "none"
    /\ fnEntries = <<>>
    /\ fnSuggestions = Absent
    /\ fnMetrics = NoMetrics
    /\ fnCharts = <<>>

\* analyzeCashflow(data) up to its await: a throw ends the call in the catch
\* block, otherwise the request is posted
AnalyzeCashflow(data) ==
    /\ pc = "idle"
    /\ cashflowData' = data
    /\ httpOutcome' = NoOutcome
    /\ LET built == BeforeRequest(geminiApiKey, data)
       IN  IF built.threw
           THEN /\ result' = CatchAnalysisError(built.message)
                /\ pc' = "done"
                /\ prompt' = NoPrompt
                /\ requests' = 0
                /\ log' = IF geminiApiKey THEN <<"prompt", "catch">> ELSE <<"catch">>
           ELSE /\ result' = NoResult
                /\ pc' = "awaiting"
                /\ prompt' = built
                /\ requests' = 1
                /\ log' = <<"prompt", "request">>
    /\ UNCHANGED <<geminiApiKey, fnVars>>

\* the steps analyzeCashflow takes after the await
StepsAfterRequest(analysisResult) ==
    IF ~analysisResult.success THEN <<"failure">>
    ELSE IF ParseThrows(analysisResult.response) THEN <<"response", "parse", "fallback">>
    ELSE <<"response", "parse">>

\* a client that posts the request once more after a 429
HttpSettlesRetrying(outcome) ==
    /\ pc = "awaiting"
    /\ httpOutcome' = outcome
    /\ LET analysisResult == callGeminiAPI(outcome)
           again == outcome.kind = "status" /\ outcome.status = 429 /\ requests < 2
       IN  IF again
           THEN /\ result' = result
                /\ log' = log \o <<"failure", "request">>
                /\ requests' = requests + 1
                /\ pc' = "awaiting"
           ELSE /\ result' = AfterRequest(analysisResult, cashflowData)
                /\ log' = log \o StepsAfterRequest(analysisResult)
                /\ requests' = requests
                /\ pc' = "done"
    /\ UNCHANGED <<geminiApiKey, cashflowData, prompt, fnVars>>

\* axios.post settles: callGeminiAPI returns and analyzeCashflow runs to its end
HttpSettles(outcome) ==
    /\ pc = "awaiting"
    /\ httpOutcome' = outcome
    /\ LET analysisResult == callGeminiAPI(outcome)
       IN  /\ result' = AfterRequest(analysisResult, cashflowData)
           /\ log' = log \o StepsAfterRequest(analysisResult)
    /\ pc' = "done"
    /\ UNCHANGED <<geminiApiKey, cashflowData, prompt, requests, fnVars>>

\* the caller takes the result; the service is ready for the next call
Consume ==
    /\ pc = "done"
    /\ pc' = "idle"
    /\ cashflowData' = NoData
    /\ prompt' = NoPrompt
    /\ requests' = 0
    /\ log' = <<>>
    /\ httpOutcome' = NoOutcome
    /\ result' = NoResult
    /\ UNCHANGED <<geminiApiKey, fnVars>>

\* a call starts on the idle service only, and only a posted request settles
Next ==
    \/ pc = "idle" /\ \E data \in Datasets : AnalyzeCashflow(data)
    \/ pc = "awaiting" /\ \E outcome \in HttpOutcomes : HttpSettles(outcome)
    \/ Consume

Spec == Init /\ [][Next]_vars

----------------------------------------------------------------------------
(* The pure helpers, applied to bounded inputs *)

\* calculateBusinessMetrics(entries) is called
ApplyMetrics(entries) ==
    /\ fnPc = "none"
    /\ fnPc' = "calculateBusinessMetrics"
    /\ fnEntries' = entries
    /\ fnSuggestions' = Absent
    /\ fnMetrics' = calculateBusinessMetrics(entries)
    /\ fnCharts' = <<>>
    /\ UNCHANGED callVars

\* generateVisualizationData({entries}, suggestions) is called
ApplyVisualization(entries, suggestions) ==
    /\ fnPc = "none"
    /\ fnPc' = "generateVisualizationData"
    /\ fnEntries' = entries
    /\ fnSuggestions' = suggestions
    /\ fnMetrics' = NoMetrics
    /\ fnCharts' = generateVisualizationData(entries, suggestions)
    /\ UNCHANGED callVars

\* the return value is dropped
Discard ==
    /\ fnPc # "none"
    /\ fnPc' = "none"
    /\ fnEntries' = <<>>
    /\ fnSuggestions' = Absent
    /\ fnMetrics' = NoMetrics
    /\ fnCharts' = <<>>
    /\ UNCHANGED callVars

NextFn ==
    \/ Discard
    \/ fnPc = "none" /\ \E entries \in EntrySeqs : ApplyMetrics(entries)
    \/ fnPc = "none" /\ \E entries \in EntrySeqs, suggestions \in Suggestions :
                            ApplyVisualization(entries, suggestions)

\* the helpers are exercised on a configured service
InitFn == Init /\ geminiApiKey = TRUE

SpecFn == InitFn /\ [][NextFn]_vars

----------------------------------------------------------------------------
(* Claims about analyzeCashflow (specification Spec) *)

ReportFields ==
    { "executiveSummary", "overallHealthScore", "insights", "keyMetrics",
      "recommendations", "riskFactors", "visualizations" }

\* the text is  ... { members } ...  with no "{" before the object and no "}"
\* behind it: the one object of the text has the model's members
ObjectHasMembers(tokens) ==
    \E i \in 1..Len(tokens) :
        /\ i + 2 <= Len(tokens)
        /\ tokens[i] = "{" /\ tokens[i + 1] = "F" /\ tokens[i + 2] = "}"
        /\ \A k \in 1..Len(tokens) :
               (k < i => tokens[k] # "{") /\ (k > i + 2 => tokens[k] # "}")

\* the exception the try block raises for the current call, "" for none
RaisedMessage ==
    IF ~geminiApiKey THEN "Gemini API key not configured"
    ELSE CASE cashflowData.shape = "null" ->
                  "Cannot destructure property 'entries' of 'cashflowData' as it is null."
           [] cashflowData.shape = "noEntries" ->
                  "Cannot read properties of undefined (reading 'filter')"
           [] cashflowData.shape = "noPeriod" ->
                  "Cannot read properties of undefined (reading 'startDate')"
           [] cashflowData.shape = "noSummary" ->
                  "Cannot read properties of undefined (reading 'totalRevenue')"
           [] cashflowData.shape = "noCategory" ->
                  "Cannot read properties of undefined (reading 'toUpperCase')"
           [] OTHER -> ""

\* C1: analyzeCashflow lets no exception reach its caller: a finished call has
\* returned an object, and when the try block raised an exception that object
\* is {success: false, error: "Failed to analyze cashflow data", details: <the
\* exception's message>}.
C1_NoExceptionEscapes ==
    pc = "done" =>
        /\ result.completion = "return"
        /\ RaisedMessage # "" =>
               /\ result.success = FALSE
               /\ result.error = "Failed to analyze cashflow data"
               /\ result.details = RaisedMessage
               /\ ~result.hasAnalysis

\* a malformed dataset made prompt building throw, and the call returned
C1_Witness ==
    /\ pc = "done"
    /\ geminiApiKey
    /\ cashflowData.shape = "noSummary"
    /\ result.completion = "return"
    /\ result.details = "Cannot read properties of undefined (reading 'totalRevenue')"

\* C2 as claimed: without a credential every call fails with the error
\* "Gemini API key not configured" and makes no request.
C2_ErrorIsKeyMessage ==
    (pc = "done" /\ ~geminiApiKey) =>
        /\ result.success = FALSE
        /\ result.error = "Gemini API key not configured"
        /\ requests = 0

\* C2, amended: without a credential every call fails with the error "Failed
\* to analyze cashflow data" and the details "Gemini API key not configured",
\* and no request is made during the call.
C2_KeyMissingFailsFast ==
    ~geminiApiKey =>
        /\ pc # "awaiting"
        /\ requests = 0
        /\ \A i \in 1..Len(log) : log[i] # "request"
        /\ pc = "done" =>
               /\ result.completion = "return"
               /\ result.success = FALSE
               /\ result.error = "Failed to analyze cashflow data"
               /\ result.details = "Gemini API key not configured"

\* a call on a service without credential, given a well-formed dataset, is over
C2_Witness ==
    /\ pc = "done"
    /\ ~geminiApiKey
    /\ cashflowData.shape = "ok"
    /\ result.success = FALSE

\* C3: a failed remote call is classified by its HTTP status and returned as
\* it is: 401, 429 and 400 have their own error (400 with the remote message),
\* every other failure is "Failed to connect to Gemini API" with the
\* underlying message as details; success is false and there is no report.
C3_FailureClassified ==
    (pc = "done" /\ httpOutcome.kind \in {"status", "network"}) =>
        /\ result.completion = "return"
        /\ result.success = FALSE
        /\ ~result.hasAnalysis
        /\ (httpOutcome.kind = "status" /\ httpOutcome.status = 401) =>
               result.error = "Invalid Gemini API key"
        /\ (httpOutcome.kind = "status" /\ httpOutcome.status = 429) =>
               result.error = "Rate limit exceeded, please try again later"
        /\ (httpOutcome.kind = "status" /\ httpOutcome.status = 400
                /\ httpOutcome.remoteMessage # "") =>
               result.error = "Invalid request: " \o httpOutcome.remoteMessage
        /\ (httpOutcome.kind = "status" /\ httpOutcome.status = 400
                /\ httpOutcome.remoteMessage = "") =>
               result.error = "Invalid request: " \o httpOutcome.statusText
        /\ (httpOutcome.kind = "network" \/ httpOutcome.status \notin {400, 401, 429}) =>
               /\ result.error = "Failed to connect to Gemini API"
               /\ result.details = httpOutcome.message

\* the remote endpoint answered 429 and the call returned the rate-limit failure
C3_Witness ==
    /\ pc = "done"
    /\ httpOutcome.kind = "status"
    /\ httpOutcome.status = 429
    /\ result.error = "Rate limit exceeded, please try again later"

\* C4: with a credential, a well-formed dataset and a non-error HTTP response,
\* analyzeCashflow returns success with a report of all seven fields, whatever
\* the response text; a body without the candidate text, a text without a
\* {...} span, unparseable JSON and JSON lacking a required field give the
\* fallback report.
C4_ReportAlwaysProduced ==
    (pc = "done" /\ httpOutcome.kind = "ok") =>
        /\ result.completion = "return"
        /\ result.success = TRUE
        /\ result.hasAnalysis
        /\ DOMAIN result.analysis = ReportFields
        /\ LET body == httpOutcome.data
               degraded == \/ ~body.defined
                           \/ body.tokens = <<>>
                           \/ ~ObjectHasMembers(body.tokens)
                           \/ body.payload.executiveSummary = ""
                           \/ body.payload.overallHealthScore = JsUndefined
           IN  degraded => result.analysis = generateFallbackAnalysis(cashflowData)

\* a 2xx body without the candidate text ended in a successful fallback report
C4_Witness ==
    /\ pc = "done"
    /\ httpOutcome.kind = "ok"
    /\ httpOutcome.data.defined
    /\ httpOutcome.data.tokens = <<>>
    /\ result.success = TRUE
    /\ result.analysis.overallHealthScore \in {Num(400), Num(700)}


\* C5 as claimed: the overallHealthScore of every report is an integer in
\* [0,100], for every truthy value the model's JSON carries in that field.
C5_ScoreIsIntegerInRange ==
    (pc = "done" /\ result.hasAnalysis) =>
        LET score == result.analysis.overallHealthScore
        IN  /\ ~score.nan
            /\ score.x10 % 10 = 0
            /\ 0 <= score.x10 /\ score.x10 <= 1000

\* C8: the fallback report's score is 70 exactly when netCashflow > 0 and 40
\* otherwise; its one insight is low and not actionable in the first case,
\* high and actionable in the second; its one metric carries netCashflow;
\* recommendations and riskFactors are empty.
C8_FallbackShape ==
    (pc = "done" /\ result.hasAnalysis /\ ~ObjectHasMembers(result.rawResponse.tokens)) =>
        LET report == result.analysis
            net == cashflowData.summary.netCashflow
        IN  /\ report.overallHealthScore = IF net > 0 THEN Num(700) ELSE Num(400)
            /\ Len(report.insights) = 1
            /\ report.insights[1].severity = IF net > 0 THEN "low" ELSE "high"
            /\ report.insights[1].actionable = ~(net > 0)
            /\ Len(report.keyMetrics) = 1
            /\ report.keyMetrics[1].value = net
            /\ report.recommendations = <<>>
            /\ report.riskFactors = <<>>

\* a text without any JSON gave the fallback report of a zero net cashflow
C8_Witness ==
    /\ pc = "done"
    /\ result.hasAnalysis
    /\ result.rawResponse.tokens = <<"w">>
    /\ cashflowData.summary.netCashflow = 0
    /\ result.analysis.overallHealthScore = Num(400)
    /\ result.analysis.insights[1].actionable = TRUE

\* an item of the model's JSON
FromModel(items) == \E i \in 1..Len(items) : "source" \in DOMAIN items[i]

\* C10: a model object whose overallHealthScore is 0, or whose
\* executiveSummary is missing or empty, is invalid: the report is the
\* fallback, none of the model's fields is in it, and its score is 70 or 40
\* by the summary.
C10_ZeroScoreFallsBack ==
    (/\ pc = "done"
     /\ result.hasAnalysis
     /\ ObjectHasMembers(result.rawResponse.tokens)
     /\ \/ result.rawResponse.payload.overallHealthScore = JsNumber(0)
        \/ result.rawResponse.payload.executiveSummary = "") =>
        LET report == result.analysis
            net == cashflowData.summary.netCashflow
        IN  /\ report.executiveSummary \notin {"", "ok"}
            /\ ~FromModel(report.insights)
            /\ ~FromModel(report.keyMetrics)
            /\ ~FromModel(report.recommendations)
            /\ ~FromModel(report.riskFactors)
            /\ report.overallHealthScore = IF net > 0 THEN Num(700) ELSE Num(400)

\* the text  Sure! {"executiveSummary": "ok", "overallHealthScore": 0, ...}
\* with all arrays listed was answered by the fallback report
C10_Witness ==
    /\ pc = "done"
    /\ result.hasAnalysis
    /\ result.rawResponse.tokens = <<"w", "{", "F", "}">>
    /\ result.rawResponse.payload.overallHealthScore = JsNumber(0)
    /\ result.rawResponse.payload.executiveSummary = "ok"
    /\ result.rawResponse.payload.insights.present
    /\ result.analysis.overallHealthScore = Num(700)

\* the positions of a step in the log of the current call
StepsAt(step) == {i \in 1..Len(log) : log[i] = step}

\* C11: a call issues at most one request to the remote endpoint; after any
\* failure of that request no second one is made and the failure is returned;
\* the request comes after the prompt is built and before any response
\* parsing or fallback generation.
C11_SingleRequest ==
    /\ requests <= 1
    /\ Cardinality(StepsAt("request")) = requests
    /\ \A r \in StepsAt("request") :
           /\ \E b \in StepsAt("prompt") : b < r
           /\ \A a \in StepsAt("parse") \cup StepsAt("fallback") \cup StepsAt("failure") :
                  r < a
    /\ (StepsAt("parse") \cup StepsAt("fallback") \cup StepsAt("failure")) # {} =>
           requests = 1
    /\ (pc = "done" /\ httpOutcome.kind \in {"status", "network"}) =>
           /\ requests = 1
           /\ log = <<"prompt", "request", "failure">>
           /\ result.completion = "return"
           /\ result.success = FALSE
           /\ result.error # ""
           /\ ~result.hasAnalysis

\* the one request of a call timed out, and the call returned that failure
C11_Witness ==
    /\ pc = "done"
    /\ httpOutcome.kind = "network"
    /\ httpOutcome.message = "timeout of 60000ms exceeded"
    /\ requests = 1
    /\ log = <<"prompt", "request", "failure">>
    /\ result.error = "Failed to connect to Gemini API"

----------------------------------------------------------------------------
(* Claims about the pure helpers (specification SpecFn) *)

\* C6 as claimed: averageTransactionSize is 0 for every entry sequence
\* without a revenue entry, also a non-empty one of expense entries only.
C6_AverageZeroWithoutRevenue ==
    (/\ fnPc = "calculateBusinessMetrics"
     /\ \A i \in 1..Len(fnEntries) : fnEntries[i].category # "revenue") =>
        IsZero(fnMetrics.averageTransactionSize)

\* the (year, month) pair a label names
LabelMonth(label) ==
    <<label[2], CHOOSE m \in 1..12 : MonthAbbr[m] = label[1]>>

\* (year, month) a is before b
MonthBefore(a, b) == a[1] < b[1] \/ (a[1] = b[1] /\ a[2] < b[2])

RECURSIVE SumOver(_, _)
\* the sum of f over the indices in S
SumOver(S, f) ==
    IF S = {} THEN 0
    ELSE LET i == CHOOSE x \in S : TRUE
         IN  f[i] + SumOver(S \ {i}, f)

\* the entries of the given category in the month of the label
InMonth(label, cat) ==
    { i \in 1..Len(fnEntries) :
          /\ <<fnEntries[i].date.year, fnEntries[i].date.month>> = LabelMonth(label)
          /\ fnEntries[i].category = cat }

AbsAmounts == [i \in 1..Len(fnEntries) |-> Abs(fnEntries[i].amount)]

Amount == [i \in 1..Len(fnEntries) |-> fnEntries[i].amount]

\* the labels name each month with an entry once, in chronological order
ChronologicalLabels(labels) ==
    /\ Len(labels) =
           Cardinality({<<fnEntries[i].date.year, fnEntries[i].date.month>> :
                            i \in 1..Len(fnEntries)})
    /\ \A i \in 1..Len(labels) :
           \E k \in 1..Len(fnEntries) :
               <<fnEntries[k].date.year, fnEntries[k].date.month>> = LabelMonth(labels[i])
    /\ \A i \in 1..Len(labels), j \in 1..Len(labels) :
           i < j => MonthBefore(LabelMonth(labels[i]), LabelMonth(labels[j]))

ChartTitled(title) ==
    fnCharts[CHOOSE i \in 1..Len(fnCharts) : fnCharts[i].title = title]

\* C7: the labels of the bar chart and of the line chart hold each calendar
\* month that has an entry exactly once, in ascending order of (year, month),
\* and each series value at position i is the aggregate of the month at label i.
C7_MonthsChronological ==
    fnPc = "generateVisualizationData" =>
        LET bar == ChartTitled("Revenue vs Expenses by Month").data
            line == ChartTitled("Net Cashflow Trend").data
        IN  /\ ChronologicalLabels(bar.labels)
            /\ ChronologicalLabels(line.labels)
            /\ \A i \in 1..Len(bar.labels) :
                   /\ bar.datasets[1].data[i] = SumOver(InMonth(bar.labels[i], "revenue"), Amount)
                   /\ bar.datasets[2].data[i] = SumOver(InMonth(bar.labels[i], "expense"), AbsAmounts)
            /\ \A i \in 1..Len(line.labels) :
                   line.datasets[1].data[i] =
                       SumOver(InMonth(line.labels[i], "revenue"), Amount)
                       - SumOver(InMonth(line.labels[i], "expense"), AbsAmounts)

\* entries of February 2024 and then November 2023: November is the first label
C7_Witness ==
    /\ fnPc = "generateVisualizationData"
    /\ Len(fnEntries) = 2
    /\ fnEntries[1].date.year = 2024 /\ fnEntries[1].date.month = 2
    /\ fnEntries[2].date.year = 2023 /\ fnEntries[2].date.month = 11
    /\ ChartTitled("Net Cashflow Trend").data.labels = << <<"Nov", 2023>>, <<"Feb", 2024>> >>

====
